---- MODULE Spec2Model ----
(***************************************************************************)
(* The project workspace of the .NET generator: the Workspace Controller  *)
(* (AppComponent), the Generation Client (GeminiService), the Agent Log   *)
(* Simulator and the Project History Store (ProjectHistoryService).       *)
(*                                                                         *)
(* Strings are sequences of atoms: a prompt or a path is a sequence of    *)
(* one-character strings, a fixed message is a one-atom sequence, and a   *)
(* template literal is the concatenation of its pieces.  The empty string *)
(* is <<>>.  `null` is Null for objects and NullStr for strings.          *)
(***************************************************************************)
EXTENDS Integers, Sequences, FiniteSets, TLC

VARIABLES
    appState,            \* signal<AppState>
    errorMessage,        \* signal<string>
    prompt,              \* model<string>
    selectedFramework,   \* signal<Framework | null>
    projectHistory,      \* signal<GeneratedProject[]>
    activeProject,       \* signal<GeneratedProject | null>
    activeAgents,        \* signal<string[]>
    agentLogs,           \* signal<{agent, message}[]>
    selectedFile,        \* signal<string | null>
    selectedPreviewFile, \* signal<string | null>
    assistantPrompt,     \* model<string>
    chatHistory,         \* signal<{role, content}[]>
    isModifying,         \* signal<boolean>
    openFolders,         \* FileTreeComponent: signal<Set<string>>
    storage,             \* localStorage item under STORAGE_KEY
    genInFlight,         \* pending generateProject calls, oldest first
    modInFlight,         \* pending modifyProject calls, oldest first
    sims,                \* running runAgentSimulation tasks: last step done, oldest first
    nextId,              \* source of fresh project ids
    steps,               \* handlers, timers and settlements run so far
    lastOp               \* the handler that ran last, with its inputs and outcome

ctrlVars == <<appState, errorMessage, prompt, selectedFramework, projectHistory,
              activeProject, activeAgents, agentLogs, selectedFile,
              selectedPreviewFile, assistantPrompt, chatHistory, isModifying,
              openFolders>>
envVars == <<storage, genInFlight, modInFlight, sims, nextId>>
vars == <<ctrlVars, envVars, steps, lastOp>>

-----------------------------------------------------------------------------
(* Bounds of the model *)

MaxSteps == 8     \* handlers, timers and settlements in one run of Spec
MaxStoreOps == 4  \* store operations in one run of SpecStore
MaxReturningSteps == 6  \* steps of one run of SpecReturning
MaxStored == 2  \* projects stored at the start of a run of SpecRead
MaxPromptLen == 52  \* length of the longest prompt of SpecClient
MaxLiveSteps == 5  \* handlers and settlements in one run of SpecLive
MaxSims == 1  \* simulator tasks running at a time in SpecLive
MaxFiles == 3  \* entries of the longest file array of SpecFiles
MaxTreeFiles == 3  \* files of the largest project of SpecTree

(* Program constants *)

MinPromptLen == 10   \* isGenerationDisabled: trim().length < 10
MaxNameLen == 50     \* callGenerativeModel: originalPrompt.length > 50
NameCut == 47        \* callGenerativeModel: substring(0, 47)
LastSimStep == 6     \* runAgentSimulation appends six lines

-----------------------------------------------------------------------------
(* Strings *)

Null == [null |-> TRUE]
NullStr == <<"null">>

Rep(c, n) == [i \in 1..n |-> c]

IsSpace(c) == c = " "

RECURSIVE TrimStart(_)
TrimStart(s) ==
    IF s # <<>> /\ IsSpace(Head(s)) THEN TrimStart(Tail(s)) ELSE s

RECURSIVE TrimEnd(_)
TrimEnd(s) ==
    IF s # <<>> /\ IsSpace(s[Len(s)]) THEN TrimEnd(SubSeq(s, 1, Len(s) - 1)) ELSE s

\* String.prototype.trim
Trim(s) == TrimEnd(TrimStart(s))

\* String.prototype.endsWith
EndsWith(s, suffix) ==
    /\ Len(s) >= Len(suffix)
    /\ SubSeq(s, Len(s) - Len(suffix) + 1, Len(s)) = suffix

\* String.prototype.substring(0, n)
Substring0(s, n) == SubSeq(s, 1, IF n < Len(s) THEN n ELSE Len(s))

\* a JavaScript value used as a condition: a string is truthy unless empty
Truthy(s) == s # <<>>

DotHtml == <<".", "h", "t", "m", "l">>
DotCshtml == <<".", "c", "s", "h", "t", "m", "l">>

-----------------------------------------------------------------------------
(* Data: GeneratedProject, its files dictionary, the inputs of the model *)

\* A files dictionary { [path]: content } is the sequence of its entries in
\* insertion order, which is the order Object.keys enumerates them in (no
\* path of the model is an integer index).
Keys(files) == [i \in 1..Len(files) |-> files[i].path]

HasKey(files, path) == \E i \in 1..Len(files) : files[i].path = path

AVAILABLE_FRAMEWORKS ==
    { [value |-> <<"ASP.NET Core MVC">>, label |-> <<"ASP.NET Core MVC">>] }

PromptPadded == <<" ">> \o Rep("p", MinPromptLen - 1) \o <<" ">>
PromptOk == Rep("q", MinPromptLen)

\* what the user can type into the prompt box
Prompts == { PromptPadded, PromptOk }

\* what the user can type into the assistant box
AssistantPrompts == { <<" ", " ">>, <<" ", "f", "i", "x", " ">> }

PathCs == <<"b", ".", "c", "s">>
PathHtml == <<"a", ".", "h", "t", "m", "l">>
PathCshtml == <<"c", ".", "c", "s", "h", "t", "m", "l">>

\* the paths the user can click in the file tree, when the files of the
\* active project have them
Paths == { PathCs, PathHtml }

Content1 == <<"content 1">>
Content2 == <<"content 2">>

\* file arrays a response can carry; an entry may lack path or content
FilesNone == <<>>
FilesInvalid == << [content |-> Content1], [path |-> PathCs],
                   [path |-> <<>>, content |-> Content1],
                   [path |-> PathHtml, content |-> <<>>] >>
FilesA == << [path |-> PathCs, content |-> Content1],
             [path |-> PathHtml, content |-> Content2] >>
FilesB == << [path |-> PathCs, content |-> Content2], [path |-> PathHtml] >>
FilesC == << [path |-> PathCshtml, content |-> Content1],
             [path |-> PathCs, content |-> Content1] >>

OkResponse(files, explanation) ==
    [kind |-> "ok", files |-> files, dependencies |-> <<"Pkg">>,
     explanation |-> explanation, build_commands |-> <<"dotnet run">>]

\* a response that also echoes the project metadata it was sent
EchoResponse(files, explanation) ==
    [kind |-> "ok", files |-> files, dependencies |-> <<>>,
     explanation |-> explanation, build_commands |-> <<>>,
     id |-> 0, name |-> <<"renamed">>, prompt |-> <<"other">>]

\* How a call of ai.models.generateContent can settle: it rejects, it
\* answers text that is not JSON, or it answers a JSON object.
Outcomes ==
    { [kind |-> "rejected"], [kind |-> "invalid"],
      OkResponse(FilesNone, <<"none">>), OkResponse(FilesInvalid, <<"invalid">>),
      OkResponse(FilesA, <<"explained">>), EchoResponse(FilesB, <<>>),
      OkResponse(FilesC, <<"explained">>) }

-----------------------------------------------------------------------------
(* Project History Store: src/services/project-history.service.ts *)

\* What localStorage.getItem(STORAGE_KEY) can give: null, the empty string,
\* text that JSON.parse rejects, the JSON text of an array, or the JSON text
\* of another value ("{}", "null").
AbsentItem == [kind |-> "absent"]
EmptyText == [kind |-> "empty"]
GarbageItem == [kind |-> "garbage"]
NotArrayItem(text) == [kind |-> "other", val |-> text]

\* JSON.stringify(projects); JSON.parse gives the array back
Stringify(projects) == [kind |-> "json", val |-> projects]

\* the stored text parses to an array
ParsesToArray(item) == item.kind = "json"

\* what JSON.parse makes of text that is not the text of an array
NotArray(text) == [notArray |-> text]

\* thrown by a call of a method the value does not have
TypeError == [thrown |-> "TypeError"]

getProjects(item) ==
    IF item.kind = "json" THEN item.val
    ELSE IF item.kind = "other" THEN NotArray(item.val)
    ELSE <<>>

FindIndex_neverFound(projects, id) == 0

\* Array.prototype.findIndex by id, 0 when there is none
FindIndex(projects, id) ==
    IF \E i \in 1..Len(projects) : projects[i].id = id
    THEN CHOOSE i \in 1..Len(projects) :
            /\ projects[i].id = id
            /\ \A j \in 1..(i - 1) : projects[j].id # id
    ELSE 0

\* projects.find(p => p.id === id) || null; find is a method of arrays only
getProject(item, id) ==
    IF item.kind = "other" THEN TypeError
    ELSE LET projects == getProjects(item)
             i == FindIndex(projects, id)
         IN  IF i > 0 THEN projects[i] ELSE Null

Upsert_alwaysUnshift(projects, project) == <<project>> \o projects

\* the array saveProject writes
Upsert(projects, project) ==
    LET existingIndex == FindIndex(projects, project.id)
    IN  IF existingIndex > 0
        THEN [projects EXCEPT ![existingIndex] = project]
        ELSE <<project>> \o projects

SetItem_clearsOnFailure(item, text, writeOk) == IF writeOk THEN text ELSE AbsentItem

\* localStorage.setItem, which may throw; the caller catches and logs
SetItem(item, text, writeOk) == IF writeOk THEN text ELSE item

\* findIndex on a value that is not an array throws inside the try block
saveProject(item, project, writeOk) ==
    IF item.kind = "other" THEN item
    ELSE SetItem(item, Stringify(Upsert(getProjects(item), project)), writeOk)

Without_keepsMatching(projects, id) == SelectSeq(projects, LAMBDA p : p.id = id)

\* Array.prototype.filter(p => p.id !== id)
Without(projects, id) == SelectSeq(projects, LAMBDA p : p.id # id)

\* filter on a value that is not an array throws inside the try block
storeDeleteProject(item, id, writeOk) ==
    IF item.kind = "other" THEN item
    ELSE SetItem(item, Stringify(Without(getProjects(item), id)), writeOk)

-----------------------------------------------------------------------------
(* Generation Client: GeminiService *)

GenerationFailed ==
    <<"Failed to generate project. The AI model may be overloaded or the request was invalid. Please check your prompt and try again.">>
ModificationFailed ==
    <<"Failed to modify project. The AI model may be overloaded or the request was invalid.">>
MissingFiles == <<"AI response is missing valid file structure.">>
CallFailed == <<"generateContent rejected">>
NotJson == <<"Unexpected token in JSON">>

Failure(message) == [ok |-> FALSE, message |-> message]
Success(project) == [ok |-> TRUE, project |-> project]

\* if (file.path && file.content)
ValidEntry(file) ==
    /\ "path" \in DOMAIN file /\ Truthy(file.path)
    /\ "content" \in DOMAIN file /\ Truthy(file.content)

\* the key of the accessor that Object.prototype gives every object literal
ProtoKey == <<"__proto__">>

SetKey_keepsFirst(acc, path, content) ==
    IF path = ProtoKey \/ HasKey(acc, path) THEN acc
    ELSE Append(acc, [path |-> path, content |-> content])

\* acc[file.path] = file.content, for the object literal acc and a string
\* content: an assignment to __proto__ calls the setter of Object.prototype,
\* which ignores a string and adds no key
SetKey(acc, path, content) ==
    IF path = ProtoKey THEN acc
    ELSE IF HasKey(acc, path)
    THEN [i \in 1..Len(acc) |->
            IF acc[i].path = path THEN [path |-> path, content |-> content]
            ELSE acc[i]]
    ELSE Append(acc, [path |-> path, content |-> content])

\* rawResponse.files.reduce(...)
RECURSIVE filesDictionary(_, _)
filesDictionary(acc, files) ==
    IF files = <<>> THEN acc
    ELSE filesDictionary(
            IF ValidEntry(Head(files))
            THEN SetKey(acc, Head(files).path, Head(files).content)
            ELSE acc,
            Tail(files))

projectName_cutAtLimit(originalPrompt) ==
    IF Len(originalPrompt) > MaxNameLen
    THEN Substring0(originalPrompt, MaxNameLen) \o <<".", ".", ".">>
    ELSE originalPrompt

projectName(originalPrompt) ==
    IF Len(originalPrompt) > MaxNameLen
    THEN Substring0(originalPrompt, NameCut) \o <<".", ".", ".">>
    ELSE originalPrompt

callGenerativeModel_unvalidated(outcome, originalPrompt, framework, id) ==
    IF outcome.kind = "rejected" THEN Failure(CallFailed)
    ELSE IF outcome.kind = "invalid" THEN Failure(NotJson)
    ELSE Success([id |-> id,
                  name |-> projectName(originalPrompt),
                  prompt |-> originalPrompt,
                  framework |-> framework,
                  files |-> filesDictionary(<<>>, outcome.files),
                  dependencies |-> outcome.dependencies,
                  explanation |-> outcome.explanation,
                  build_commands |-> outcome.build_commands])

callGenerativeModel(outcome, originalPrompt, framework, id) ==
    IF outcome.kind = "rejected" THEN Failure(CallFailed)
    ELSE IF outcome.kind = "invalid" THEN Failure(NotJson)
    ELSE LET generatedProject ==
                [id |-> id,
                 name |-> projectName(originalPrompt),
                 prompt |-> originalPrompt,
                 framework |-> framework,
                 files |-> filesDictionary(<<>>, outcome.files),
                 dependencies |-> outcome.dependencies,
                 explanation |-> outcome.explanation,
                 build_commands |-> outcome.build_commands]
         IN  IF Len(generatedProject.files) = 0
             THEN Failure(MissingFiles)
             ELSE Success(generatedProject)

generateProject_rawCause(outcome, userPrompt, framework, id) ==
    callGenerativeModel(outcome, userPrompt, framework, id)

generateProject(outcome, userPrompt, framework, id) ==
    LET r == callGenerativeModel(outcome, userPrompt, framework, id)
    IN  IF r.ok THEN r ELSE Failure(GenerationFailed)

modifyProject_returnsResponse(outcome, existingProject, id) ==
    LET r == callGenerativeModel(outcome, existingProject.prompt,
                                 existingProject.framework, id)
    IN  IF r.ok THEN r ELSE Failure(ModificationFailed)

modifyProject(outcome, existingProject, id) ==
    LET r == callGenerativeModel(outcome, existingProject.prompt,
                                 existingProject.framework, id)
    IN  IF r.ok
        THEN Success([existingProject EXCEPT
                        !.files = r.project.files,
                        !.dependencies = r.project.dependencies,
                        !.explanation = r.project.explanation,
                        !.build_commands = r.project.build_commands])
        ELSE Failure(ModificationFailed)

-----------------------------------------------------------------------------
(* File tree: FileTreeComponent lists Object.keys(files).sort() *)

\* the characters of the model's paths, in the order of their code units
CodeUnits == <<".", "/", "a", "b", "c", "h", "l", "m", "s", "t">>

CodeUnit(c) == CHOOSE k \in 1..Len(CodeUnits) : CodeUnits[k] = c

\* p sorts before q under Array.prototype.sort without a comparator
RECURSIVE SortsBefore(_, _)
SortsBefore(p, q) ==
    IF p = <<>> THEN q # <<>>
    ELSE IF q = <<>> THEN FALSE
    ELSE IF Head(p) = Head(q) THEN SortsBefore(Tail(p), Tail(q))
    ELSE CodeUnit(Head(p)) < CodeUnit(Head(q))

\* Object.keys(files).sort()[0]
FirstSorted(files) ==
    LET paths == { files[i].path : i \in 1..Len(files) }
    IN  CHOOSE p \in paths : \A q \in paths : q = p \/ SortsBefore(p, q)

\* Object.keys(this.files()).sort()
SortedKeys(files) == SortSeq(Keys(files), SortsBefore)

\* path.split('/')
RECURSIVE Split(_)
Split(s) ==
    IF \A k \in 1..Len(s) : s[k] # "/" THEN <<s>>
    ELSE LET k == CHOOSE i \in 1..Len(s) :
                     s[i] = "/" /\ \A j \in 1..(i - 1) : s[j] # "/"
         IN  <<SubSeq(s, 1, k - 1)>> \o Split(SubSeq(s, k + 1, Len(s)))

\* The Map of fileTree is the sequence of its nodes in the order they were
\* set.  A node records the path of the node it was created under and
\* whether it was pushed: to root when that path is empty, to the children
\* of the node of that path when that node has children.
HasNode(map, path) == \E k \in 1..Len(map) : map[k].path = path

GetNode(map, path) == map[CHOOSE k \in 1..Len(map) : map[k].path = path]

\* currentPath += (currentPath ? '/' : '') + name
Extended(currentPath, name) ==
    IF Truthy(currentPath) THEN currentPath \o <<"/">> \o name ELSE name

\* the inner loop of fileTree, from index i (counted from 0)
RECURSIVE addParts(_, _, _, _)
addParts(map, parts, i, currentPath) ==
    IF i >= Len(parts) THEN map
    ELSE LET name == parts[i + 1]
             parentPath == currentPath
             path == Extended(currentPath, name)
             isFile == i = Len(parts) - 1
             node == [name |-> name,
                      path |-> path,
                      type |-> IF isFile THEN "file" ELSE "folder",
                      level |-> i,
                      parent |-> parentPath,
                      pushed |-> \/ ~Truthy(parentPath)
                                 \/ GetNode(map, parentPath).type = "folder"]
         IN  addParts(IF HasNode(map, path) THEN map ELSE Append(map, node),
                      parts, i + 1, path)

\* the outer loop of fileTree
RECURSIVE addPaths(_, _)
addPaths(map, filePaths) ==
    IF filePaths = <<>> THEN map
    ELSE addPaths(addParts(map, Split(Head(filePaths)), 0, <<>>), Tail(filePaths))

\* root
Root(map) == SelectSeq(map, LAMBDA n : n.pushed /\ ~Truthy(n.parent))

\* node.children of a folder: nothing is pushed to the folder of the empty path
Children(map, node) ==
    IF Truthy(node.path)
    THEN SelectSeq(map, LAMBDA n : n.pushed /\ n.parent = node.path)
    ELSE <<>>

RECURSIVE flatten(_, _, _)
flatten(map, open, nodes) ==
    IF nodes = <<>> THEN <<>>
    ELSE LET node == Head(nodes)
         IN  <<node>>
             \o (IF node.type = "folder" /\ node.path \in open
                 THEN flatten(map, open, Children(map, node))
                 ELSE <<>>)
             \o flatten(map, open, Tail(nodes))

\* the computed fileTree: the nodes the template lists, in order
fileTree(files, open) ==
    LET map == addPaths(<<>>, SortedKeys(files))
    IN  flatten(map, open, Root(map))

-----------------------------------------------------------------------------
(* Workspace Controller: AppComponent *)

AppStates == { "landing", "configuring", "generating", "completed",
               "my_projects", "error" }

\* the states the navigation of the view hands to setAppState
NavTargets == { "landing", "my_projects", "configuring" }

AI_AGENTS == <<"team_leader", "coder", "frontend", "database">>

SimLine_frontendBeforeDatabase(step) ==
    CASE step = 1 -> [agent |-> "team_leader",
                      message |-> <<"Analyzing project requirements...">>]
      [] step = 2 -> [agent |-> "team_leader",
                      message |-> <<"Assembling AI development team...">>]
      [] step = 3 -> [agent |-> "coder",
                      message |-> <<"Scaffolding backend structure...">>]
      [] step = 4 -> [agent |-> "frontend",
                      message |-> <<"Planning UI components...">>]
      [] step = 5 -> [agent |-> "database",
                      message |-> <<"Designing database schema...">>]
      [] OTHER -> [agent |-> "team_leader",
                   message |-> <<"Team is now generating the full codebase. This may take a moment...">>]

\* the lines of runAgentSimulation, in the order it appends them
SimLine(step) ==
    CASE step = 1 -> [agent |-> "team_leader",
                      message |-> <<"Analyzing project requirements...">>]
      [] step = 2 -> [agent |-> "team_leader",
                      message |-> <<"Assembling AI development team...">>]
      [] step = 3 -> [agent |-> "coder",
                      message |-> <<"Scaffolding backend structure...">>]
      [] step = 4 -> [agent |-> "database",
                      message |-> <<"Designing database schema...">>]
      [] step = 5 -> [agent |-> "frontend",
                      message |-> <<"Planning UI components...">>]
      [] OTHER -> [agent |-> "team_leader",
                   message |-> <<"Team is now generating the full codebase. This may take a moment...">>]

CompleteLine ==
    [agent |-> "team_leader",
     message |-> <<"Project generation complete! Review the files below.">>]

UnknownError == <<"An unknown error occurred.">>

NewGreeting ==
    [role |-> "assistant",
     content |-> <<"Your project is ready! I'm your code assistant. Ask me to make changes or add features.">>]

LoadedGreeting_unnamed(project) ==
    [role |-> "assistant",
     content |-> <<"Loaded project. How can I help you modify it?">>]

LoadedGreeting(project) ==
    [role |-> "assistant",
     content |-> <<"Loaded project \"">> \o project.name
                 \o <<"\". How can I help you modify it?">>]

UpdatedMessage(project) ==
    [role |-> "assistant",
     content |-> IF Truthy(project.explanation)
                 THEN <<"I've updated the project: ">> \o project.explanation
                 ELSE <<"I've updated the project based on your request. Please review the changes.">>]

ErrorChat_withoutMessage(message) ==
    [role |-> "assistant", content |-> <<"I encountered an error: ">>]

ErrorChat(message) ==
    [role |-> "assistant", content |-> <<"I encountered an error: ">> \o message]

isGenerationDisabled_untrimmed ==
    Len(prompt) < MinPromptLen \/ selectedFramework = Null

isGenerationDisabled ==
    Len(Trim(prompt)) < MinPromptLen \/ selectedFramework = Null

previewableFiles_htmlOnly(project) ==
    IF project = Null THEN <<>>
    ELSE SelectSeq(Keys(project.files), LAMBDA path : EndsWith(path, DotHtml))

previewableFiles(project) ==
    IF project = Null THEN <<>>
    ELSE SelectSeq(Keys(project.files),
                   LAMBDA path : EndsWith(path, DotHtml) \/ EndsWith(path, DotCshtml))

\* Object.keys(project.files)[0] || null
FirstFile(project) ==
    IF project # Null /\ Len(project.files) > 0 THEN project.files[1].path
    ELSE NullStr

\* previewableFiles()[0] || null
FirstPreview(project) ==
    IF previewableFiles(project) # <<>> THEN previewableFiles(project)[1]
    ELSE NullStr

\* initializeWorkspace, for the project that has just become active
initializeWorkspace(isNew, project) ==
    /\ chatHistory' = IF isNew THEN <<NewGreeting>> ELSE <<LoadedGreeting(project)>>
    /\ selectedFile' = FirstFile(project)
    /\ selectedPreviewFile' = FirstPreview(project)

resetConfiguration ==
    /\ prompt' = <<>>
    /\ selectedFramework' = Null
    /\ activeProject' = Null
    /\ agentLogs' = <<>>
    /\ activeAgents' = <<>>
    /\ chatHistory' = <<>>

\* one more step of the run, while the run may go on
Tick == steps < MaxSteps /\ steps' = steps + 1

Init ==
    /\ appState = "landing"
    /\ errorMessage = <<>>
    /\ prompt = <<>>
    /\ selectedFramework = Null
    /\ storage = AbsentItem
    /\ projectHistory = getProjects(storage)
    /\ activeProject = Null
    /\ activeAgents = <<>>
    /\ agentLogs = <<>>
    /\ selectedFile = NullStr
    /\ selectedPreviewFile = NullStr
    /\ assistantPrompt = <<>>
    /\ openFolders = {}
    /\ chatHistory = <<>>
    /\ isModifying = FALSE
    /\ genInFlight = <<>>
    /\ modInFlight = <<>>
    /\ sims = <<>>
    /\ nextId = 1
    /\ steps = 0
    /\ lastOp = [op |-> "constructor"]

(* The user edits the two-way bound inputs. *)

setPrompt(text) ==
    /\ Tick
    /\ prompt' = text
    /\ lastOp' = [op |-> "setPrompt"]
    /\ UNCHANGED <<appState, errorMessage, selectedFramework, projectHistory,
                   activeProject, activeAgents, agentLogs, selectedFile,
                   selectedPreviewFile, assistantPrompt, openFolders, chatHistory, isModifying,
                   envVars>>

setAssistantPrompt(text) ==
    /\ Tick
    /\ assistantPrompt' = text
    /\ lastOp' = [op |-> "setAssistantPrompt"]
    /\ UNCHANGED <<appState, errorMessage, prompt, selectedFramework, projectHistory,
                   activeProject, activeAgents, agentLogs, selectedFile,
                   selectedPreviewFile, chatHistory, isModifying, openFolders,
                   envVars>>

selectFramework(framework) ==
    /\ Tick
    /\ selectedFramework' = framework
    /\ lastOp' = [op |-> "selectFramework"]
    /\ UNCHANGED <<appState, errorMessage, prompt, projectHistory,
                   activeProject, activeAgents, agentLogs, selectedFile,
                   selectedPreviewFile, assistantPrompt, openFolders, chatHistory, isModifying,
                   envVars>>

selectFile(filePath) ==
    /\ Tick
    /\ selectedFile' = filePath
    /\ lastOp' = [op |-> "selectFile"]
    /\ UNCHANGED <<appState, errorMessage, prompt, selectedFramework, projectHistory,
                   activeProject, activeAgents, agentLogs,
                   selectedPreviewFile, assistantPrompt, openFolders, chatHistory, isModifying,
                   envVars>>

(* App flow *)

setAppState(state) ==
    /\ Tick
    /\ appState' = state
    /\ IF state = "configuring"
       THEN resetConfiguration
       ELSE UNCHANGED <<prompt, selectedFramework, activeProject, agentLogs,
                        activeAgents, chatHistory>>
    /\ lastOp' = [op |-> "setAppState", state |-> state]
    /\ UNCHANGED <<errorMessage, projectHistory, selectedFile, selectedPreviewFile,
                   assistantPrompt, openFolders, isModifying, envVars>>

startNewProjectFlow ==
    /\ Tick
    /\ resetConfiguration
    /\ appState' = "configuring"
    /\ lastOp' = [op |-> "startNewProjectFlow"]
    /\ UNCHANGED <<errorMessage, projectHistory, selectedFile, selectedPreviewFile,
                   assistantPrompt, openFolders, isModifying, envVars>>

loadProject(projectId) ==
    LET project == getProject(storage, projectId)
    IN  /\ Tick
        /\ IF project # Null
           THEN /\ activeProject' = project
                /\ appState' = "completed"
                /\ initializeWorkspace(FALSE, project)
           ELSE UNCHANGED <<activeProject, appState, chatHistory, selectedFile,
                            selectedPreviewFile>>
        /\ lastOp' = [op |-> "loadProject", id |-> projectId, found |-> project # Null]
        /\ UNCHANGED <<errorMessage, prompt, selectedFramework, projectHistory,
                       activeAgents, agentLogs, assistantPrompt, openFolders, isModifying,
                       envVars>>

deleteProject_keepsWorkspace(projectId, writeOk) ==
    LET wasActive == activeProject # Null /\ activeProject.id = projectId
    IN  /\ Tick
        /\ storage' = storeDeleteProject(storage, projectId, writeOk)
        /\ projectHistory' = getProjects(storage')
        /\ lastOp' = [op |-> "deleteProject", id |-> projectId,
                      wasActive |-> wasActive, writeOk |-> writeOk]
        /\ UNCHANGED <<appState, activeProject, errorMessage, prompt,
                       selectedFramework, activeAgents, agentLogs, selectedFile,
                       selectedPreviewFile, assistantPrompt, openFolders, chatHistory, isModifying,
                       genInFlight, modInFlight, sims, nextId>>

deleteProject(projectId, writeOk) ==
    LET wasActive == activeProject # Null /\ activeProject.id = projectId
    IN  /\ Tick
        /\ storage' = storeDeleteProject(storage, projectId, writeOk)
        /\ projectHistory' = getProjects(storage')
        /\ IF wasActive
           THEN activeProject' = Null /\ appState' = "landing"
           ELSE UNCHANGED <<activeProject, appState>>
        /\ lastOp' = [op |-> "deleteProject", id |-> projectId,
                      wasActive |-> wasActive, writeOk |-> writeOk]
        /\ UNCHANGED <<errorMessage, prompt, selectedFramework, activeAgents,
                       agentLogs, selectedFile, selectedPreviewFile, assistantPrompt, openFolders,
                       chatHistory, isModifying, genInFlight, modInFlight, sims,
                       nextId>>

(* Project generation *)

\* handleGenerateProject up to its await: the guard, the reset of the log, the
\* start of runAgentSimulation (which runs to its first delay) and the call
\* of generateProject
handleGenerateProject ==
    /\ Tick
    /\ IF isGenerationDisabled
       THEN /\ lastOp' = [op |-> "handleGenerateProject", accepted |-> FALSE]
            /\ UNCHANGED <<ctrlVars, envVars>>
       ELSE /\ appState' = "generating"
            /\ agentLogs' = <<SimLine(1)>>
            /\ activeAgents' = <<AI_AGENTS[1]>>
            /\ sims' = Append(sims, 1)
            /\ genInFlight' = Append(genInFlight,
                                     [prompt |-> prompt,
                                      framework |-> selectedFramework])
            /\ lastOp' = [op |-> "handleGenerateProject", accepted |-> TRUE]
            /\ UNCHANGED <<errorMessage, prompt, selectedFramework, projectHistory,
                           activeProject, selectedFile, selectedPreviewFile,
                           assistantPrompt, openFolders, chatHistory, isModifying, storage,
                           modInFlight, nextId>>

\* the sequence without its i-th element
Remove(seq, i) ==
    [j \in 1..(Len(seq) - 1) |-> IF j < i THEN seq[j] ELSE seq[j + 1]]

runAgentSimulation_cancelled(i) ==
    LET step == sims[i] + 1
    IN  /\ appState = "generating"
        /\ IF i = 1 THEN TRUE ELSE step <= sims[i - 1]
        /\ agentLogs' = Append(agentLogs, SimLine(step))
        /\ activeAgents' = IF step = 2 THEN AI_AGENTS ELSE activeAgents
        /\ sims' = IF step = LastSimStep THEN Remove(sims, i)
                   ELSE [sims EXCEPT ![i] = step]
        /\ lastOp' = [op |-> "simulationStep", step |-> step]
        /\ UNCHANGED <<appState, errorMessage, prompt, selectedFramework,
                       projectHistory, activeProject, selectedFile,
                       selectedPreviewFile, assistantPrompt, openFolders, chatHistory, isModifying,
                       storage, genInFlight, modInFlight, nextId>>

runAgentSimulation_timesOut(i) ==
    LET step == sims[i] + 1
    IN  /\ IF i = 1 THEN TRUE ELSE step <= sims[i - 1]
        /\ agentLogs' = Append(agentLogs, SimLine(step))
        /\ activeAgents' = IF step = 2 THEN AI_AGENTS ELSE activeAgents
        /\ sims' = IF step = LastSimStep THEN Remove(sims, i)
                   ELSE [sims EXCEPT ![i] = step]
        /\ appState' = IF step = LastSimStep THEN "error" ELSE appState
        /\ lastOp' = [op |-> "simulationStep", step |-> step]
        /\ UNCHANGED <<errorMessage, prompt, selectedFramework,
                       projectHistory, activeProject, selectedFile,
                       selectedPreviewFile, assistantPrompt, openFolders, chatHistory, isModifying,
                       storage, genInFlight, modInFlight, nextId>>

\* runAgentSimulation from one delay to the next, for the i-th running task.
\* Two tasks wait the same delays, so the task started later never reaches a
\* line before the task started earlier has reached it.
runAgentSimulation(i) ==
    LET step == sims[i] + 1
    IN  /\ IF i = 1 THEN TRUE ELSE step <= sims[i - 1]
        /\ agentLogs' = Append(agentLogs, SimLine(step))
        /\ activeAgents' = IF step = 2 THEN AI_AGENTS ELSE activeAgents
        /\ sims' = IF step = LastSimStep THEN Remove(sims, i)
                   ELSE [sims EXCEPT ![i] = step]
        /\ lastOp' = [op |-> "simulationStep", step |-> step]
        /\ UNCHANGED <<appState, errorMessage, prompt, selectedFramework,
                       projectHistory, activeProject, selectedFile,
                       selectedPreviewFile, assistantPrompt, openFolders, chatHistory, isModifying,
                       storage, genInFlight, modInFlight, nextId>>

\* A delay of runAgentSimulation expires and the task runs to its next delay.
simulationStep(i) ==
    /\ Tick
    /\ runAgentSimulation(i)

generationSucceeded_unsaved(project, writeOk) ==
    /\ activeProject' = project
    /\ storage' = storage
    /\ projectHistory' = getProjects(storage')
    /\ appState' = "completed"
    /\ agentLogs' = Append(agentLogs, CompleteLine)
    /\ initializeWorkspace(TRUE, project)
    /\ nextId' = nextId + 1
    /\ UNCHANGED errorMessage

generationSucceeded_optimistic(project, writeOk) ==
    /\ activeProject' = project
    /\ storage' = saveProject(storage, project, writeOk)
    /\ projectHistory' = Upsert(projectHistory, project)
    /\ appState' = "completed"
    /\ agentLogs' = Append(agentLogs, CompleteLine)
    /\ initializeWorkspace(TRUE, project)
    /\ nextId' = nextId + 1
    /\ UNCHANGED errorMessage

\* the try block of handleGenerateProject after its await
generationSucceeded(project, writeOk) ==
    /\ activeProject' = project
    /\ storage' = saveProject(storage, project, writeOk)
    /\ projectHistory' = getProjects(storage')
    /\ appState' = "completed"
    /\ agentLogs' = Append(agentLogs, CompleteLine)
    /\ initializeWorkspace(TRUE, project)
    /\ nextId' = nextId + 1
    /\ UNCHANGED errorMessage

generationFailed_staysGenerating(message) ==
    /\ errorMessage' = IF Truthy(message) THEN message ELSE UnknownError
    /\ UNCHANGED <<appState, activeProject, storage, projectHistory, agentLogs,
                   chatHistory, selectedFile, selectedPreviewFile, nextId>>

\* the catch block of handleGenerateProject
generationFailed(message) ==
    /\ errorMessage' = IF Truthy(message) THEN message ELSE UnknownError
    /\ appState' = "error"
    /\ UNCHANGED <<activeProject, storage, projectHistory, agentLogs,
                   chatHistory, selectedFile, selectedPreviewFile, nextId>>

\* The i-th pending generateProject call settles with `outcome` and
\* handleGenerateProject runs from its await to its end.
generationSettled(i, outcome, writeOk) ==
    LET request == genInFlight[i]
        r == generateProject(outcome, request.prompt, request.framework, nextId)
    IN  /\ Tick
        /\ genInFlight' = Remove(genInFlight, i)
        /\ IF r.ok
           THEN generationSucceeded(r.project, writeOk)
           ELSE generationFailed(r.message)
        /\ activeAgents' = <<>>
        /\ lastOp' = [op |-> "generationSettled", ok |-> r.ok,
                      outcome |-> outcome, writeOk |-> r.ok /\ writeOk]
        /\ UNCHANGED <<prompt, selectedFramework, assistantPrompt, openFolders, isModifying,
                       modInFlight, sims>>

(* Code assistant *)

\* if (!userPrompt || !this.activeProject() || this.isModifying()) return;
modificationIgnored_whileModifying ==
    ~Truthy(Trim(assistantPrompt)) \/ activeProject = Null

modificationIgnored_untrimmed ==
    ~Truthy(assistantPrompt) \/ activeProject = Null \/ isModifying

modificationIgnored ==
    ~Truthy(Trim(assistantPrompt)) \/ activeProject = Null \/ isModifying

\* handleModificationRequest up to its await
handleModificationRequest ==
    LET userPrompt == Trim(assistantPrompt)
    IN  /\ Tick
        /\ IF modificationIgnored
           THEN /\ lastOp' = [op |-> "handleModificationRequest", accepted |-> FALSE]
                /\ UNCHANGED <<ctrlVars, envVars>>
           ELSE /\ isModifying' = TRUE
                /\ chatHistory' = Append(chatHistory,
                                         [role |-> "user", content |-> userPrompt])
                /\ assistantPrompt' = <<>>
                /\ modInFlight' = Append(modInFlight,
                                         [userPrompt |-> userPrompt,
                                          currentProject |-> activeProject])
                /\ lastOp' = [op |-> "handleModificationRequest", accepted |-> TRUE]
                /\ UNCHANGED <<appState, errorMessage, prompt, selectedFramework,
                               projectHistory, activeProject, activeAgents, agentLogs,
                               selectedFile, selectedPreviewFile, openFolders,
                               storage, genInFlight, sims, nextId>>

modificationSettled_keepsFlagOnFailure(i, outcome, writeOk) ==
    LET request == modInFlight[i]
        r == modifyProject(outcome, request.currentProject, nextId)
    IN  /\ Tick
        /\ modInFlight' = Remove(modInFlight, i)
        /\ IF r.ok
           THEN /\ activeProject' = r.project
                /\ storage' = saveProject(storage, r.project, writeOk)
                /\ projectHistory' = getProjects(storage')
                /\ chatHistory' = Append(chatHistory, UpdatedMessage(r.project))
                /\ selectedPreviewFile' =
                      IF /\ selectedPreviewFile # NullStr
                         /\ Truthy(selectedPreviewFile)
                         /\ \A k \in 1..Len(previewableFiles(r.project)) :
                               previewableFiles(r.project)[k] # selectedPreviewFile
                      THEN FirstPreview(r.project)
                      ELSE selectedPreviewFile
                /\ UNCHANGED errorMessage
           ELSE /\ errorMessage' = IF Truthy(r.message) THEN r.message ELSE UnknownError
                /\ chatHistory' = Append(chatHistory, ErrorChat(errorMessage'))
                /\ UNCHANGED <<activeProject, storage, projectHistory,
                               selectedPreviewFile>>
        /\ isModifying' = ~r.ok
        /\ lastOp' = [op |-> "modificationSettled", ok |-> r.ok,
                      outcome |-> outcome, writeOk |-> r.ok /\ writeOk,
                      existingProject |-> request.currentProject]
        /\ UNCHANGED <<appState, prompt, selectedFramework, activeAgents, agentLogs,
                       selectedFile, assistantPrompt, openFolders, genInFlight, sims, nextId>>

\* The i-th pending modifyProject call settles with `outcome` and
\* handleModificationRequest runs from its await to its end.
modificationSettled(i, outcome, writeOk) ==
    LET request == modInFlight[i]
        r == modifyProject(outcome, request.currentProject, nextId)
    IN  /\ Tick
        /\ modInFlight' = Remove(modInFlight, i)
        /\ IF r.ok
           THEN /\ activeProject' = r.project
                /\ storage' = saveProject(storage, r.project, writeOk)
                /\ projectHistory' = getProjects(storage')
                /\ chatHistory' = Append(chatHistory, UpdatedMessage(r.project))
                /\ selectedPreviewFile' =
                      IF /\ selectedPreviewFile # NullStr
                         /\ Truthy(selectedPreviewFile)
                         /\ \A k \in 1..Len(previewableFiles(r.project)) :
                               previewableFiles(r.project)[k] # selectedPreviewFile
                      THEN FirstPreview(r.project)
                      ELSE selectedPreviewFile
                /\ UNCHANGED errorMessage
           ELSE /\ errorMessage' = IF Truthy(r.message) THEN r.message ELSE UnknownError
                /\ chatHistory' = Append(chatHistory, ErrorChat(errorMessage'))
                /\ UNCHANGED <<activeProject, storage, projectHistory,
                               selectedPreviewFile>>
        /\ isModifying' = FALSE
        /\ lastOp' = [op |-> "modificationSettled", ok |-> r.ok,
                      outcome |-> outcome, writeOk |-> r.ok /\ writeOk,
                      existingProject |-> request.currentProject]
        /\ UNCHANGED <<appState, prompt, selectedFramework, activeAgents, agentLogs,
                       selectedFile, assistantPrompt, openFolders, genInFlight, sims, nextId>>

-----------------------------------------------------------------------------
(* The workspace: user actions, timers and settling requests in any order *)

ProjectIds == 1..nextId

Next ==
    \/ \E text \in Prompts : setPrompt(text)
    \/ \E text \in AssistantPrompts : setAssistantPrompt(text)
    \/ \E framework \in AVAILABLE_FRAMEWORKS : selectFramework(framework)
    \/ \E filePath \in Paths :
          /\ activeProject # Null
          /\ HasKey(activeProject.files, filePath)
          /\ selectFile(filePath)
    \/ \E state \in NavTargets : setAppState(state)
    \/ startNewProjectFlow
    \/ \E projectId \in ProjectIds : loadProject(projectId)
    \/ \E projectId \in ProjectIds, writeOk \in BOOLEAN : deleteProject(projectId, writeOk)
    \/ handleGenerateProject
    \/ \E i \in 1..Len(sims) : simulationStep(i)
    \/ \E i \in 1..Len(genInFlight), outcome \in Outcomes, writeOk \in BOOLEAN :
          generationSettled(i, outcome, writeOk)
    \/ handleModificationRequest
    \/ \E i \in 1..Len(modInFlight), outcome \in Outcomes, writeOk \in BOOLEAN :
          modificationSettled(i, outcome, writeOk)

Spec == Init /\ [][Next]_vars

-----------------------------------------------------------------------------
(* The Project History Store on its own: saves and deletes of arbitrary    *)
(* projects, applied to the item the store keeps in localStorage.          *)

StoreIds == { 1, 2, 3 }

StoredProject(id, files) ==
    [id |-> id, name |-> PromptOk, prompt |-> PromptOk,
     framework |-> CHOOSE f \in AVAILABLE_FRAMEWORKS : TRUE,
     files |-> filesDictionary(<<>>, files),
     dependencies |-> <<>>, explanation |-> <<>>, build_commands |-> <<>>]

StoreProjects == { StoredProject(id, files) : id \in StoreIds, files \in { FilesA, FilesB } }

callSaveProject(project, writeOk) ==
    /\ steps < MaxStoreOps
    /\ steps' = steps + 1
    /\ storage' = saveProject(storage, project, writeOk)
    /\ lastOp' = [op |-> "saveProject", project |-> project, writeOk |-> writeOk,
                  before |-> getProjects(storage)]
    /\ UNCHANGED <<ctrlVars, genInFlight, modInFlight, sims, nextId>>

callDeleteProject(id, writeOk) ==
    /\ steps < MaxStoreOps
    /\ steps' = steps + 1
    /\ storage' = storeDeleteProject(storage, id, writeOk)
    /\ lastOp' = [op |-> "storeDeleteProject", id |-> id, writeOk |-> writeOk,
                  before |-> getProjects(storage)]
    /\ UNCHANGED <<ctrlVars, genInFlight, modInFlight, sims, nextId>>

NextStore ==
    \/ \E project \in StoreProjects, writeOk \in BOOLEAN : callSaveProject(project, writeOk)
    \/ \E id \in StoreIds, writeOk \in BOOLEAN : callDeleteProject(id, writeOk)

SpecStore == Init /\ [][NextStore]_vars

-----------------------------------------------------------------------------
(* Reads of the Project History Store, over every kind of value the item   *)
(* can hold when the service starts.                                        *)

DistinctIds(projects) ==
    \A i, j \in 1..Len(projects) : projects[i].id = projects[j].id => i = j

StoredLists ==
    { projects \in UNION { [1..n -> StoreProjects] : n \in 0..MaxStored } :
         DistinctIds(projects) }

StoredValues ==
    { AbsentItem, EmptyText, GarbageItem, NotArrayItem("{}"), NotArrayItem("null") }
       \cup { Stringify(projects) : projects \in StoredLists }

InitRead ==
    /\ appState = "landing"
    /\ errorMessage = <<>>
    /\ prompt = <<>>
    /\ selectedFramework = Null
    /\ storage \in StoredValues
    /\ projectHistory = getProjects(storage)
    /\ activeProject = Null
    /\ activeAgents = <<>>
    /\ agentLogs = <<>>
    /\ selectedFile = NullStr
    /\ selectedPreviewFile = NullStr
    /\ assistantPrompt = <<>>
    /\ openFolders = {}
    /\ chatHistory = <<>>
    /\ isModifying = FALSE
    /\ genInFlight = <<>>
    /\ modInFlight = <<>>
    /\ sims = <<>>
    /\ nextId = 1
    /\ steps = 0
    /\ lastOp = [op |-> "constructor"]

callGetProjects ==
    /\ lastOp' = [op |-> "getProjects", isArray |-> storage.kind # "other",
                  result |-> getProjects(storage)]
    /\ UNCHANGED <<ctrlVars, envVars, steps>>

callGetProject(id) ==
    /\ lastOp' = [op |-> "getProject", id |-> id,
                  result |-> getProject(storage, id)]
    /\ UNCHANGED <<ctrlVars, envVars, steps>>

NextRead ==
    \/ callGetProjects
    \/ \E id \in StoreIds : callGetProject(id)

SpecRead == InitRead /\ [][NextRead]_vars

-----------------------------------------------------------------------------
(* The Generation Client on its own: generateProject called with prompts   *)
(* of every length up to MaxPromptLen, for every way the call can settle.  *)

Digits == <<"0", "1", "2", "3", "4", "5", "6", "7", "8", "9">>

\* a prompt of n characters, the i-th being the last digit of i
PromptOfLen(n) == [i \in 1..n |-> Digits[(i % 10) + 1]]

ClientPrompts == { PromptOfLen(n) : n \in 0..MaxPromptLen }

InitClient ==
    /\ appState = "landing"
    /\ errorMessage = <<>>
    /\ prompt \in ClientPrompts
    /\ selectedFramework \in AVAILABLE_FRAMEWORKS
    /\ storage = AbsentItem
    /\ projectHistory = getProjects(storage)
    /\ activeProject = Null
    /\ activeAgents = <<>>
    /\ agentLogs = <<>>
    /\ selectedFile = NullStr
    /\ selectedPreviewFile = NullStr
    /\ assistantPrompt = <<>>
    /\ openFolders = {}
    /\ chatHistory = <<>>
    /\ isModifying = FALSE
    /\ genInFlight = <<>>
    /\ modInFlight = <<>>
    /\ sims = <<>>
    /\ nextId = 1
    /\ steps = 0
    /\ lastOp = [op |-> "constructor"]

callGenerateProject(outcome) ==
    /\ lastOp' = [op |-> "generateProject", outcome |-> outcome,
                  result |-> generateProject(outcome, prompt, selectedFramework, nextId)]
    /\ UNCHANGED <<ctrlVars, envVars, steps>>

NextClient == \E outcome \in Outcomes : callGenerateProject(outcome)

SpecClient == InitClient /\ [][NextClient]_vars

-----------------------------------------------------------------------------
(* The files dictionary of the Generation Client: generateProject called   *)
(* once, its call of generateContent answering a JSON object with any file *)
(* array of up to MaxFiles entries.                                        *)

\* entries of rawResponse.files: two contents for one path, another path,
\* entries whose path or content is missing or the empty string, and an
\* entry whose path is __proto__
FileEntries ==
    { [path |-> PathCs, content |-> Content1],
      [path |-> PathCs, content |-> Content2],
      [path |-> PathHtml, content |-> Content1],
      [content |-> Content1],
      [path |-> PathCs],
      [path |-> <<>>, content |-> Content1],
      [path |-> PathHtml, content |-> <<>>],
      [path |-> ProtoKey, content |-> Content1] }

FileArrays == UNION { [1..n -> FileEntries] : n \in 0..MaxFiles }

\* generateProject has been called and generateContent has answered
InitFiles ==
    /\ appState = "landing"
    /\ errorMessage = <<>>
    /\ prompt = PromptOk
    /\ selectedFramework \in AVAILABLE_FRAMEWORKS
    /\ storage = AbsentItem
    /\ projectHistory = getProjects(storage)
    /\ activeProject = Null
    /\ activeAgents = <<>>
    /\ agentLogs = <<>>
    /\ selectedFile = NullStr
    /\ selectedPreviewFile = NullStr
    /\ assistantPrompt = <<>>
    /\ openFolders = {}
    /\ chatHistory = <<>>
    /\ isModifying = FALSE
    /\ genInFlight = <<>>
    /\ modInFlight = <<>>
    /\ sims = <<>>
    /\ nextId = 1
    /\ steps = 0
    /\ \E files \in FileArrays :
          lastOp = [op |-> "generateContent",
                    outcome |-> OkResponse(files, <<"explained">>)]

\* callGenerativeModel runs on from its await, and generateProject returns
generateProjectReturns ==
    /\ lastOp.op = "generateContent"
    /\ lastOp' = [op |-> "generateProject", outcome |-> lastOp.outcome,
                  result |-> generateProject(lastOp.outcome, prompt,
                                             selectedFramework, nextId)]
    /\ UNCHANGED <<ctrlVars, envVars, steps>>

NextFiles == generateProjectReturns

SpecFiles == InitFiles /\ [][NextFiles]_vars

-----------------------------------------------------------------------------
(* Generation with its simulator, the timers of the simulator firing       *)
(* whenever they are due: a bounded number of handlers and settlements,    *)
(* and every delay of runAgentSimulation expiring in the end.              *)

\* a delay of runAgentSimulation expires
timerFires(i) == runAgentSimulation(i) /\ UNCHANGED steps

someTimerFires == \E i \in 1..Len(sims) : timerFires(i)

\* the call rejects, or answers a project
LiveOutcomes == { [kind |-> "rejected"], OkResponse(FilesA, <<"explained">>) }

NextLive ==
    \/ /\ steps < MaxLiveSteps
       /\ \/ \E text \in Prompts : setPrompt(text)
          \/ \E framework \in AVAILABLE_FRAMEWORKS : selectFramework(framework)
          \/ \E state \in NavTargets : setAppState(state)
          \/ startNewProjectFlow
          \/ \E projectId \in ProjectIds : loadProject(projectId)
          \/ Len(sims) < MaxSims /\ handleGenerateProject
          \/ \E i \in 1..Len(genInFlight), outcome \in LiveOutcomes, writeOk \in BOOLEAN :
                generationSettled(i, outcome, writeOk)
    \/ someTimerFires

SpecLive == Init /\ [][NextLive]_vars /\ WF_vars(someTimerFires)

-----------------------------------------------------------------------------
(* A returning session: the constructor finds two projects of an earlier   *)
(* session in localStorage, the later one first.                           *)

EarlierProject(id, files) ==
    generateProject(OkResponse(files, <<"explained">>), PromptOk,
                    CHOOSE f \in AVAILABLE_FRAMEWORKS : TRUE, id).project

EarlierProjects == << EarlierProject(2, FilesB), EarlierProject(1, FilesA) >>

InitReturning ==
    /\ appState = "landing"
    /\ errorMessage = <<>>
    /\ prompt = <<>>
    /\ selectedFramework = Null
    /\ storage = Stringify(EarlierProjects)
    /\ projectHistory = getProjects(storage)
    /\ activeProject = Null
    /\ activeAgents = <<>>
    /\ agentLogs = <<>>
    /\ selectedFile = NullStr
    /\ selectedPreviewFile = NullStr
    /\ assistantPrompt = <<>>
    /\ openFolders = {}
    /\ chatHistory = <<>>
    /\ isModifying = FALSE
    /\ genInFlight = <<>>
    /\ modInFlight = <<>>
    /\ sims = <<>>
    /\ nextId = Len(EarlierProjects) + 1
    /\ steps = 0
    /\ lastOp = [op |-> "constructor"]

NextReturning == steps < MaxReturningSteps /\ Next

SpecReturning == InitReturning /\ [][NextReturning]_vars

-----------------------------------------------------------------------------
(* The file tree of the workspace: a project of up to MaxTreeFiles files   *)
(* has been loaded, and the user clicks the nodes the tree lists.          *)

\* paths a response can give its files: in folders, at the top, a path that
\* is also the folder of another one, and a path that starts with a slash
TreePaths ==
    { <<"a", "/", "b">>, <<"a", "/", "c", "/", "h">>, <<"s">>, <<"a">>,
      <<"/", "a", "/", "b">> }

TreeFileArrays ==
    { [k \in 1..Len(paths) |-> [path |-> paths[k], content |-> Content1]] :
        paths \in { q \in UNION { [1..n -> TreePaths] : n \in 1..MaxTreeFiles } :
                      \A i, j \in 1..Len(q) : q[i] = q[j] => i = j } }

\* loadProject has loaded the one project of the history
InitTree ==
    \E files \in TreeFileArrays :
        LET project == EarlierProject(1, files)
        IN  /\ appState = "completed"
            /\ errorMessage = <<>>
            /\ prompt = <<>>
            /\ selectedFramework = Null
            /\ storage = Stringify(<<project>>)
            /\ projectHistory = getProjects(storage)
            /\ activeProject = project
            /\ activeAgents = <<>>
            /\ agentLogs = <<>>
            /\ selectedFile = FirstFile(project)
            /\ selectedPreviewFile = FirstPreview(project)
            /\ assistantPrompt = <<>>
            /\ openFolders = {}
            /\ chatHistory = <<LoadedGreeting(project)>>
            /\ isModifying = FALSE
            /\ genInFlight = <<>>
            /\ modInFlight = <<>>
            /\ sims = <<>>
            /\ nextId = 2
            /\ steps = 0
            /\ lastOp = [op |-> "loadProject", id |-> 1, found |-> TRUE]

\* onNodeClick, for a node the tree lists: a file is emitted as selected, a
\* folder is added to the open set or deleted from it
onNodeClick(node) ==
    /\ IF node.type = "file"
       THEN UNCHANGED openFolders
       ELSE openFolders' = IF node.path \in openFolders
                           THEN openFolders \ { node.path }
                           ELSE openFolders \cup { node.path }
    /\ lastOp' = [op |-> "onNodeClick", node |-> node, open |-> openFolders,
                  emitted |-> IF node.type = "file" THEN node.path ELSE NullStr]
    /\ UNCHANGED <<appState, errorMessage, prompt, selectedFramework,
                   projectHistory, activeProject, activeAgents, agentLogs,
                   selectedFile, selectedPreviewFile, assistantPrompt,
                   chatHistory, isModifying, envVars, steps>>

NextTree ==
    \E k \in 1..Len(fileTree(activeProject.files, openFolders)) :
        onNodeClick(fileTree(activeProject.files, openFolders)[k])

SpecTree == InitTree /\ [][NextTree]_vars

-----------------------------------------------------------------------------
(* Properties *)

ProgramVars == <<ctrlVars, envVars>>

IdsOf(projects) == { projects[i].id : i \in 1..Len(projects) }

\* C1: when the trimmed prompt has fewer than 10 characters or no framework is
\* selected, a call of handleGenerateProject changes nothing: appState, the
\* pending requests, the agent log and the simulator tasks stay as they were.
C1_GenerateGuardIsNoOp ==
    [][ ( /\ lastOp'.op = "handleGenerateProject"
          /\ (Len(Trim(prompt)) < 10 \/ selectedFramework = Null) )
        => UNCHANGED ProgramVars ]_vars

\* a generate call was ignored in `configuring` although a framework is
\* selected and the raw prompt has 10 characters or more: its trimmed text is short
C1_Witness ==
    /\ lastOp = [op |-> "handleGenerateProject", accepted |-> FALSE]
    /\ appState = "configuring"
    /\ selectedFramework # Null
    /\ Len(prompt) >= 10

\* C2: at most one generation request is in flight at any time.
C2_OneGenerationInFlight == Len(genInFlight) <= 1

\* C3: at most one modification request is in flight, and a call of
\* handleModificationRequest while one is pending changes nothing (no chat
\* entry, no second request).
C3_OneModificationInFlight ==
    /\ [](Len(modInFlight) <= 1)
    /\ [][ (lastOp'.op = "handleModificationRequest" /\ Len(modInFlight) > 0)
           => UNCHANGED ProgramVars ]_vars

\* a second call with a non-empty instruction was ignored while the first
\* request was pending
C3_Witness ==
    /\ lastOp = [op |-> "handleModificationRequest", accepted |-> FALSE]
    /\ Len(modInFlight) = 1
    /\ Truthy(Trim(assistantPrompt))
    /\ activeProject # Null

\* the client returned successfully with a file array that yields no entry
EmptyResult(outcome) ==
    /\ outcome.kind = "ok"
    /\ \A k \in 1..Len(outcome.files) : ~ValidEntry(outcome.files[k])

\* C4: the active project and every project of the history have a non-empty
\* files mapping, and a settled request whose response yields an empty
\* mapping has failed.
C4_FilesNonEmpty ==
    /\ activeProject # Null => Len(activeProject.files) > 0
    /\ \A k \in 1..Len(projectHistory) : Len(projectHistory[k].files) > 0
    /\ \A k \in 1..Len(getProjects(storage)) : Len(getProjects(storage)[k].files) > 0
    /\ ( /\ lastOp.op \in { "generationSettled", "modificationSettled" }
         /\ EmptyResult(lastOp.outcome) )
       => ~lastOp.ok

\* a modification settled with a response made only of entries lacking a
\* path or a content: it failed and the active project kept its files
C4_Witness ==
    /\ lastOp.op = "modificationSettled"
    /\ EmptyResult(lastOp.outcome)
    /\ Len(lastOp.outcome.files) > 0
    /\ ~lastOp.ok
    /\ activeProject # Null

\* C5: after a successful modification the project has the id, name, prompt
\* and framework of the project passed in, and the files, dependencies,
\* explanation and build_commands of the response.
C5_ModificationKeepsMetadata ==
    (lastOp.op = "modificationSettled" /\ lastOp.ok) =>
        /\ activeProject.id = lastOp.existingProject.id
        /\ activeProject.name = lastOp.existingProject.name
        /\ activeProject.prompt = lastOp.existingProject.prompt
        /\ activeProject.framework = lastOp.existingProject.framework
        /\ activeProject.dependencies = lastOp.outcome.dependencies
        /\ activeProject.explanation = lastOp.outcome.explanation
        /\ activeProject.build_commands = lastOp.outcome.build_commands
        /\ \A path \in Paths :
              HasKey(activeProject.files, path) <=>
                 \E k \in 1..Len(lastOp.outcome.files) :
                    /\ ValidEntry(lastOp.outcome.files[k])
                    /\ lastOp.outcome.files[k].path = path

\* a modification succeeded on a response that carries an id, a name and a
\* prompt of its own
C5_Witness ==
    /\ lastOp.op = "modificationSettled"
    /\ lastOp.ok
    /\ "id" \in DOMAIN lastOp.outcome
    /\ lastOp.outcome.id # activeProject.id
    /\ lastOp.outcome.name # activeProject.name

\* what a save of `project` makes of the list `before`
SavedOver(before, project, after) ==
    IF project.id \in IdsOf(before)
    THEN /\ Len(after) = Len(before)
         /\ \A k \in 1..Len(before) :
               after[k] = IF before[k].id = project.id THEN project ELSE before[k]
    ELSE /\ Len(after) = Len(before) + 1
         /\ after[1] = project
         /\ \A k \in 1..Len(before) : after[k + 1] = before[k]

\* C6 as claimed: every save is an upsert by id, and saving the same project
\* again leaves the store as it is.
C6_SaveUpserts ==
    lastOp.op = "saveProject" =>
        /\ SavedOver(lastOp.before, lastOp.project, getProjects(storage))
        /\ saveProject(storage, lastOp.project, TRUE) = storage

\* C6 amended: a save whose storage write succeeds is an upsert by id
\* (replace in place, or insert at the front), and saving the same project
\* again leaves the store as it is; a save whose write fails leaves the list
\* unchanged.
C6_SaveUpsertsWhenWritten ==
    lastOp.op = "saveProject" =>
        IF lastOp.writeOk
        THEN /\ SavedOver(lastOp.before, lastOp.project, getProjects(storage))
             /\ saveProject(storage, lastOp.project, TRUE) = storage
        ELSE getProjects(storage) = lastOp.before

\* a save replaced an entry that was not at the front of a list of two or more
C6_Witness ==
    /\ lastOp.op = "saveProject"
    /\ lastOp.writeOk
    /\ Len(lastOp.before) >= 2
    /\ lastOp.before[1].id # lastOp.project.id
    /\ lastOp.project.id \in IdsOf(lastOp.before)
    /\ lastOp.project \notin { lastOp.before[k] : k \in 1..Len(lastOp.before) }

\* `after` is `before` without its entries of `id`, the others in their order
RECURSIVE DeletedFrom(_, _, _)
DeletedFrom(before, id, after) ==
    IF before = <<>> THEN after = <<>>
    ELSE IF Head(before).id = id THEN DeletedFrom(Tail(before), id, after)
    ELSE /\ after # <<>>
         /\ Head(after) = Head(before)
         /\ DeletedFrom(Tail(before), id, Tail(after))

\* C7 as claimed: after every delete the id is absent, the other entries are
\* there in their order, and a delete of an id not present changes nothing.
C7_DeleteRemoves ==
    lastOp.op = "storeDeleteProject" =>
        /\ getProject(storage, lastOp.id) = Null
        /\ DeletedFrom(lastOp.before, lastOp.id, getProjects(storage))
        /\ lastOp.id \notin IdsOf(lastOp.before) => getProjects(storage) = lastOp.before

\* C7 amended: the same, for a delete whose storage write succeeds; a delete
\* whose write fails leaves the list unchanged.
C7_DeleteRemovesWhenWritten ==
    lastOp.op = "storeDeleteProject" =>
        IF lastOp.writeOk
        THEN /\ getProject(storage, lastOp.id) = Null
             /\ DeletedFrom(lastOp.before, lastOp.id, getProjects(storage))
             /\ lastOp.id \notin IdsOf(lastOp.before) => getProjects(storage) = lastOp.before
        ELSE getProjects(storage) = lastOp.before

\* a delete removed the middle entry of a list of three
C7_Witness ==
    /\ lastOp.op = "storeDeleteProject"
    /\ lastOp.writeOk
    /\ Len(lastOp.before) = 3
    /\ lastOp.before[2].id = lastOp.id
    /\ Len(getProjects(storage)) = 2

\* what deleteProject does to the workspace
DeleteWorkspaceEffect ==
    IF activeProject # Null /\ activeProject.id = lastOp'.id
    THEN activeProject' = Null /\ appState' = "landing"
    ELSE UNCHANGED <<activeProject, appState>>

\* C8 as claimed: deleting the active project clears it and goes to
\* `landing`, deleting another leaves both alone, and in both cases the
\* history list has no entry of that id afterwards.
C8_ControllerDelete ==
    [][ lastOp'.op = "deleteProject" =>
          /\ DeleteWorkspaceEffect
          /\ lastOp'.id \notin IdsOf(projectHistory') ]_vars

\* C8 amended: the same for the workspace; the history list has no entry of
\* that id when the storage write succeeded, and is the unchanged stored list
\* when the write failed.
C8_ControllerDeleteWhenWritten ==
    [][ lastOp'.op = "deleteProject" =>
          /\ DeleteWorkspaceEffect
          /\ IF lastOp'.writeOk
             THEN lastOp'.id \notin IdsOf(projectHistory')
             ELSE projectHistory' = getProjects(storage) ]_vars

\* the active project was deleted while another project stayed in the history
C8_Witness ==
    /\ lastOp.op = "deleteProject"
    /\ lastOp.wasActive
    /\ lastOp.writeOk
    /\ activeProject = Null
    /\ appState = "landing"
    /\ Len(projectHistory) = 1

\* the Generation Client succeeds on `outcome`: the call returns JSON with at
\* least one entry that has a path and a content
ClientSucceeds(outcome) ==
    /\ outcome.kind = "ok"
    /\ \E k \in 1..Len(outcome.files) : ValidEntry(outcome.files[k])

\* C9: right after a generation request settles, appState is `completed` if
\* the Generation Client succeeded and `error` if it failed, wherever the
\* simulator tasks are.
C9_SettledStateFollowsClient ==
    lastOp.op = "generationSettled" =>
        appState = IF ClientSucceeds(lastOp.outcome) THEN "completed" ELSE "error"

\* a request failed while its simulator was midway
C9_Witness ==
    /\ lastOp.op = "generationSettled"
    /\ ~ClientSucceeds(lastOp.outcome)
    /\ appState = "error"
    /\ sims # <<>>
    /\ sims[1] \in 2..(LastSimStep - 1)

\* C10: a modification request is accepted only while appState is `completed`.
C10_ModifyOnlyWhenCompleted ==
    (lastOp.op = "handleModificationRequest" /\ lastOp.accepted) =>
        appState = "completed"

\* C11: once every generation request has settled the active-agents set is
\* empty, and it stays empty until handleGenerateProject starts another
\* attempt, wherever the simulator tasks are.
C11_AgentsClearedAfterSettle ==
    genInFlight = <<>> => activeAgents = <<>>

\* C12: appState enters `generating` only from `configuring`, `error` only
\* from `generating`, and `completed` only from `generating` by a successful
\* generation or by loading a stored project.
C12_StateEdges ==
    [][ appState' # appState =>
          /\ appState' = "generating" => appState = "configuring"
          /\ appState' = "error" => appState = "generating"
          /\ appState' = "completed" =>
                \/ /\ appState = "generating"
                   /\ lastOp'.op = "generationSettled"
                   /\ lastOp'.ok
                \/ /\ lastOp'.op = "loadProject"
                   /\ lastOp'.found ]_vars

\* C13: whenever the active project changes to a project with a different
\* id, the chat history is reset to the single greeting of that project.
C13_ChatFollowsActiveProject ==
    [][ ( /\ activeProject # Null
          /\ activeProject' # Null
          /\ activeProject'.id # activeProject.id )
        => /\ Len(chatHistory') = 1
           /\ chatHistory'[1].role = "assistant" ]_vars

\* C14: a generation that fails for any cause (the call rejects, the answer
\* is not JSON, the files mapping is empty) ends in `error` with the one fixed
\* generation-failure message; nothing is saved and the active project stays.
C14_GenerationFailureIsNormalized ==
    [][ ( /\ lastOp'.op = "generationSettled"
          /\ ~ClientSucceeds(lastOp'.outcome) )
        => /\ appState' = "error"
           /\ errorMessage' = GenerationFailed
           /\ UNCHANGED <<storage, projectHistory, activeProject>> ]_vars

\* a second generation answered text that is not JSON while the project of
\* the first was active and stored
C14_Witness ==
    /\ lastOp.op = "generationSettled"
    /\ lastOp.outcome.kind = "invalid"
    /\ appState = "error"
    /\ errorMessage = GenerationFailed
    /\ activeProject # Null
    /\ getProject(storage, activeProject.id) = activeProject

C16_ReadsNeverFail ==
    /\ lastOp.op = "getProjects" =>
          /\ lastOp.isArray
          /\ ~ParsesToArray(storage) => lastOp.result = <<>>
    /\ lastOp.op = "getProject" => lastOp.result # TypeError

\* the operation `op` attempted a storage write that failed
WriteFailed(op) ==
    \/ op.op \in { "generationSettled", "modificationSettled" } /\ op.ok /\ ~op.writeOk
    \/ op.op = "deleteProject" /\ ~op.writeOk

\* C17: a storage write that fails during a save or a delete leaves the
\* stored value as it was and raises nothing: a successful generation still
\* ends in `completed` with its project active and greeted, a successful
\* modification still activates its project, a delete still clears the
\* workspace, and errorMessage is not written.
C17_FailedWriteIsSwallowed ==
    [][ WriteFailed(lastOp') =>
          /\ storage' = storage
          /\ projectHistory' = getProjects(storage)
          /\ errorMessage' = errorMessage
          /\ lastOp'.op = "generationSettled" =>
                /\ appState' = "completed"
                /\ activeProject' # Null
                /\ activeProject'.id = nextId
                /\ chatHistory' = <<NewGreeting>>
          /\ lastOp'.op = "modificationSettled" =>
                /\ activeProject' # Null
                /\ activeProject'.id = lastOp'.existingProject.id
                /\ appState' = appState
                /\ ~isModifying'
          /\ lastOp'.op = "deleteProject" => DeleteWorkspaceEffect ]_vars

\* a second generation succeeded while its save failed: its project is
\* active in `completed` and the store still holds only the first project
C17_Witness ==
    /\ lastOp.op = "generationSettled"
    /\ lastOp.ok
    /\ ~lastOp.writeOk
    /\ appState = "completed"
    /\ activeProject # Null
    /\ getProject(storage, activeProject.id) = Null
    /\ Len(getProjects(storage)) = 1

\* the store holds the active project as it is
ActiveIsStored ==
    activeProject # Null => getProject(storage, activeProject.id) = activeProject

\* C18: as long as no storage write fails, whenever a project is active the
\* store holds an entry of its id that equals it: no step whose write
\* succeeds (or that writes nothing) breaks this.
C18_ActiveProjectIsStored ==
    [][ (ActiveIsStored /\ ~WriteFailed(lastOp')) => ActiveIsStored' ]_vars

\* a modification succeeded and was written: the store holds the modified
\* project, which differs from the one the request was made for
C18_Witness ==
    /\ lastOp.op = "modificationSettled"
    /\ lastOp.ok
    /\ lastOp.writeOk
    /\ activeProject # Null
    /\ activeProject # lastOp.existingProject
    /\ getProject(storage, activeProject.id) = activeProject

\* C19: loadProject(id) with an entry of that id stored makes that entry the
\* active project, sets `completed` and makes the chat the one greeting that
\* names the project; with no such entry it leaves the active project,
\* appState, the chat and the selections alone.
C19_LoadProject ==
    [][ lastOp'.op = "loadProject" =>
          LET project == getProject(storage, lastOp'.id)
          IN  IF project # Null
              THEN /\ activeProject' = project
                   /\ appState' = "completed"
                   /\ chatHistory' =
                         << [role |-> "assistant",
                             content |-> <<"Loaded project \"">> \o project.name
                                         \o <<"\". How can I help you modify it?">>] >>
              ELSE UNCHANGED <<activeProject, appState, chatHistory, selectedFile,
                               selectedPreviewFile>> ]_vars

\* project 2 was loaded over project 1 while a modification of project 1 was
\* pending
C19_Witness ==
    /\ lastOp = [op |-> "loadProject", id |-> 2, found |-> TRUE]
    /\ activeProject # Null
    /\ activeProject.id = 2
    /\ appState = "completed"
    /\ Len(chatHistory) = 1
    /\ modInFlight # <<>>
    /\ modInFlight[1].currentProject.id = 1

\* C20: a call of handleModificationRequest with an empty or whitespace-only
\* instruction, or with no active project, changes nothing.
C20_ModificationGuardIsNoOp ==
    [][ ( /\ lastOp'.op = "handleModificationRequest"
          /\ (Trim(assistantPrompt) = <<>> \/ activeProject = Null) )
        => UNCHANGED ProgramVars ]_vars

\* a whitespace-only instruction was ignored with a project active and no
\* modification pending; the input still holds it
C20_Witness ==
    /\ lastOp = [op |-> "handleModificationRequest", accepted |-> FALSE]
    /\ activeProject # Null
    /\ ~isModifying
    /\ assistantPrompt = <<" ", " ">>
    /\ appState = "completed"

\* C21: a generated project is named by its prompt when the prompt has at
\* most 50 characters, and otherwise by the first 47 characters of the prompt
\* followed by three dots; the name has at most 50 characters and the prompt
\* field is the whole prompt.
C21_ProjectName ==
    (lastOp.op = "generateProject" /\ lastOp.result.ok) =>
        LET project == lastOp.result.project
        IN  /\ project.prompt = prompt
            /\ Len(prompt) <= MaxNameLen => project.name = prompt
            /\ Len(prompt) > MaxNameLen =>
                  project.name = SubSeq(prompt, 1, NameCut) \o <<".", ".", ".">>
            /\ Len(project.name) <= MaxNameLen

\* a prompt of 51 characters gave a name of 50 characters
C21_Witness ==
    /\ lastOp.op = "generateProject"
    /\ lastOp.result.ok
    /\ Len(prompt) = MaxNameLen + 1
    /\ Len(lastOp.result.project.name) = MaxNameLen
    /\ lastOp.result.project.name # prompt

\* C22: right after a successful generation, and right after a stored project
\* is loaded, the selected file is the first path of the project's files in
\* sorted order.
C22_FirstFileInPathOrder ==
    ( \/ lastOp.op = "generationSettled" /\ lastOp.ok
      \/ lastOp.op = "loadProject" /\ lastOp.found )
    => selectedFile = FirstSorted(activeProject.files)

\* the handlers the user calls to navigate
Navigation == { "setAppState", "startNewProjectFlow", "loadProject", "deleteProject" }

\* C23: a step of the simulator changes neither appState nor the pending
\* requests; appState leaves `generating` only by a navigation of the user or
\* by a request that settles, and a request is sent only by
\* handleGenerateProject.
C23_NoTimeoutNoRetry ==
    [][ /\ lastOp'.op = "simulationStep" => UNCHANGED <<appState, genInFlight>>
        /\ (appState = "generating" /\ appState' # "generating") =>
              lastOp'.op \in Navigation \cup { "generationSettled" }
        /\ Len(genInFlight') > Len(genInFlight) =>
              lastOp'.op = "handleGenerateProject" ]_vars

\* the simulator has appended its last line and ended while the request is
\* still pending in `generating`
C23_Witness ==
    /\ lastOp = [op |-> "simulationStep", step |-> LastSimStep]
    /\ sims = <<>>
    /\ Len(genInFlight) = 1
    /\ appState = "generating"
    /\ Len(agentLogs) = LastSimStep

\* C24: once deleteProject has removed the id of a project from the store,
\* the store holds no entry of that id afterwards, whatever request settles
\* next.
C24_DeletedStaysDeleted ==
    [][ (lastOp.op = "deleteProject" /\ lastOp.writeOk /\ lastOp.id < nextId)
        => lastOp.id \notin IdsOf(getProjects(storage')) ]_vars

\* C25: a modification that succeeds installs a project of the id of the
\* project that was active just before it settled.
C25_ModificationKeepsActiveId ==
    [][ (lastOp'.op = "modificationSettled" /\ lastOp'.ok)
        => /\ activeProject # Null
           /\ activeProject'.id = activeProject.id ]_vars

\* the paths of `files` that end in .html or .cshtml, in the order of the keys
MarkupPaths(files) ==
    SelectSeq([i \in 1..Len(files) |-> files[i].path],
              LAMBDA path : EndsWith(path, DotHtml) \/ EndsWith(path, DotCshtml))

FirstOrNone(paths) == IF paths = <<>> THEN NullStr ELSE paths[1]

IsOneOf(path, paths) == \E k \in 1..Len(paths) : paths[k] = path

\* C26 as claimed: after a successful modification the selected preview file
\* is the previous selection if that is a previewable file of the updated
\* project, and otherwise the first previewable file of the updated project,
\* or none when it has none.
C26_PreviewRevalidated ==
    [][ (lastOp'.op = "modificationSettled" /\ lastOp'.ok) =>
          LET previews == MarkupPaths(activeProject'.files)
          IN  selectedPreviewFile' =
                 IF IsOneOf(selectedPreviewFile, previews)
                 THEN selectedPreviewFile
                 ELSE FirstOrNone(previews) ]_vars

\* C26 amended: the same when a preview file was selected before; when none
\* was selected, none is selected afterwards, also when the updated project
\* has previewable files.
C26_PreviewRevalidatedWhenSelected ==
    [][ (lastOp'.op = "modificationSettled" /\ lastOp'.ok) =>
          LET previews == MarkupPaths(activeProject'.files)
          IN  /\ selectedPreviewFile' =
                    IF selectedPreviewFile = NullStr THEN NullStr
                    ELSE IF IsOneOf(selectedPreviewFile, previews)
                    THEN selectedPreviewFile
                    ELSE FirstOrNone(previews)
              /\ \/ selectedPreviewFile' = NullStr
                 \/ IsOneOf(selectedPreviewFile', previews) ]_vars

\* a modification replaced a.html by c.cshtml in the project, and the preview
\* selection moved from the one to the other
C26_Witness ==
    /\ lastOp.op = "modificationSettled"
    /\ lastOp.ok
    /\ activeProject.id = lastOp.existingProject.id
    /\ HasKey(lastOp.existingProject.files, PathHtml)
    /\ ~HasKey(activeProject.files, PathHtml)
    /\ selectedPreviewFile = PathCshtml

\* the place of a log line in the script of one attempt; the completion line
\* comes last
ScriptPlace(line) ==
    IF line = CompleteLine THEN LastSimStep + 1
    ELSE CHOOSE k \in 1..LastSimStep : SimLine(k) = line

\* C27: while appState is `generating` the agent log holds the lines of one
\* attempt only: each line at most once and in the order of the script.
C27_LogOfOneAttempt ==
    appState = "generating" =>
        \A i, j \in 1..Len(agentLogs) :
            i < j => ScriptPlace(agentLogs[i]) < ScriptPlace(agentLogs[j])

\* the agents of the six lines of one attempt, in order
ScriptAgents ==
    <<"team_leader", "team_leader", "coder", "database", "frontend", "team_leader">>

AllAgents == <<"team_leader", "coder", "frontend", "database">>

\* C28: an accepted generate call makes the log the first line (team_leader)
\* and the active agents {team_leader}; every later step of the simulator
\* appends one line, of the agent the script names for that step, keeps the
\* lines already there, and sets the active agents to all four with the
\* second line only; a simulator running alone goes through the steps 2 to 6
\* one by one and then ends.
C28_Choreography ==
    [][ /\ (lastOp'.op = "handleGenerateProject" /\ lastOp'.accepted) =>
              /\ Len(agentLogs') = 1
              /\ agentLogs'[1].agent = ScriptAgents[1]
              /\ activeAgents' = <<"team_leader">>
        /\ lastOp'.op = "simulationStep" =>
              /\ lastOp'.step \in 2..6
              /\ Len(agentLogs') = Len(agentLogs) + 1
              /\ SubSeq(agentLogs', 1, Len(agentLogs)) = agentLogs
              /\ agentLogs'[Len(agentLogs')].agent = ScriptAgents[lastOp'.step]
              /\ activeAgents' = IF lastOp'.step = 2 THEN AllAgents ELSE activeAgents
              /\ Len(sims) = 1 =>
                    /\ lastOp'.step = sims[1] + 1
                    /\ sims' = IF lastOp'.step = 6 THEN <<>> ELSE <<lastOp'.step>> ]_vars

\* one attempt, its request still pending, has logged its six lines
C28_Witness ==
    /\ lastOp = [op |-> "simulationStep", step |-> 6]
    /\ sims = <<>>
    /\ genInFlight # <<>>
    /\ [k \in 1..Len(agentLogs) |-> agentLogs[k].agent] = ScriptAgents
    /\ activeAgents = AllAgents

\* C29: while simulator tasks are running, their timers firing, the tasks all
\* come to their end, which a task reaches by appending its sixth line;
\* whatever the request, appState and the user do meanwhile.
C29_SimulatorCompletes == (sims # <<>>) ~> (sims = <<>>)

\* a simulator appended its sixth line after its request had settled and the
\* user had reset the configuration
C29_Witness ==
    /\ lastOp = [op |-> "simulationStep", step |-> LastSimStep]
    /\ appState = "configuring"
    /\ genInFlight = <<>>
    /\ Len(agentLogs) = LastSimStep - 1

\* C30: isModifying is true exactly while a modification request is pending:
\* every settlement clears it, on success and on failure, and a call with a
\* non-empty instruction and a project active is accepted whenever no
\* request is pending.
C30_IsModifyingTracksRequest ==
    /\ [](isModifying <=> modInFlight # <<>>)
    /\ [][ lastOp'.op = "modificationSettled" => ~isModifying' ]_vars
    /\ [][ ( /\ lastOp'.op = "handleModificationRequest"
             /\ Trim(assistantPrompt) # <<>>
             /\ activeProject # Null
             /\ modInFlight = <<>> )
           => (lastOp'.accepted /\ isModifying') ]_vars

\* a request was accepted after an earlier one had failed
C30_Witness ==
    /\ lastOp = [op |-> "handleModificationRequest", accepted |-> TRUE]
    /\ errorMessage = ModificationFailed
    /\ isModifying
    /\ Len(modInFlight) = 1

\* C31: the in-memory history list is the list the store returns: it is so
\* when the controller starts, and every operation that writes the store
\* (a generation or a modification that succeeded, a delete) reads the list
\* back after its write, also when the write failed and changed nothing.
C31_HistoryMatchesStore == projectHistory = getProjects(storage)

\* a generation succeeded and its write failed silently: the project is
\* active and neither the store nor the history list holds it
C31_Witness ==
    /\ lastOp.op = "generationSettled"
    /\ lastOp.ok /\ ~lastOp.writeOk
    /\ activeProject # Null
    /\ activeProject.id \notin IdsOf(getProjects(storage))
    /\ projectHistory = getProjects(storage)

\* C32: the store starting empty, no two entries of the stored list share an
\* id, whatever saves and deletes are made and whichever of their writes
\* fail: a save of a stored id replaces its entry, and only a save of an id
\* not stored adds an entry.
C32_IdsAreDistinct == DistinctIds(getProjects(storage))

\* a project was saved whose id was stored already, next to another project
C32_Witness ==
    /\ lastOp.op = "saveProject"
    /\ lastOp.writeOk
    /\ lastOp.project.id \in IdsOf(lastOp.before)
    /\ lastOp.project \notin { lastOp.before[k] : k \in 1..Len(lastOp.before) }
    /\ Len(getProjects(storage)) = 2
    /\ DistinctIds(getProjects(storage))

\* C33: whenever a project is active, the file selected for the code view is
\* none or one of the paths of the active project's files, also after a
\* modification whose response lacks the selected file.
C33_SelectedFileIsInProject ==
    activeProject # Null =>
        (selectedFile = NullStr \/ HasKey(activeProject.files, selectedFile))

\* an entry of the file array has a path and a content
HasPathAndContent(file) ==
    /\ "path" \in DOMAIN file /\ file.path # <<>>
    /\ "content" \in DOMAIN file /\ file.content # <<>>

\* the entries of the file array that have a path and a content
WithPathAndContent(files) ==
    { k \in 1..Len(files) : HasPathAndContent(files[k]) }

\* those of them whose path an object literal can have as a key
Storable(files) ==
    { k \in WithPathAndContent(files) : files[k].path # ProtoKey }

\* the paths of `dictionary` are the paths of the entries `kept` of `files`,
\* each once, and each with the content of the last of these entries that
\* has the path
MappingOf(dictionary, files, kept) ==
    LET last(path) == CHOOSE k \in kept :
                          /\ files[k].path = path
                          /\ \A j \in kept : files[j].path = path => j <= k
    IN  /\ { dictionary[i].path : i \in 1..Len(dictionary) }
              = { files[k].path : k \in kept }
        /\ \A i, j \in 1..Len(dictionary) :
              dictionary[i].path = dictionary[j].path => i = j
        /\ \A i \in 1..Len(dictionary) :
              dictionary[i].path \in { files[k].path : k \in kept }
                 => dictionary[i].content = files[last(dictionary[i].path)].content

\* C34: the files mapping of the project built from a response holds exactly
\* the entries of the file array that have a path and a content, a path that
\* several entries have carrying the content of the last of them; and the
\* operation does not fail on a file array with entries that lack either.
C34_FilesMapping ==
    lastOp.op = "generateProject" =>
        LET files == lastOp.outcome.files
        IN  /\ WithPathAndContent(files) # 1..Len(files) => lastOp.result.ok
            /\ lastOp.result.ok =>
                  MappingOf(lastOp.result.project.files, files,
                            WithPathAndContent(files))

\* C34, amended: the mapping holds exactly the entries that have a path and
\* a content, neither of them the empty string, and whose path is not
\* __proto__; the operation succeeds exactly when there is such an entry,
\* and fails when it has dropped them all.
C34_FilesMappingOfStorable ==
    lastOp.op = "generateProject" =>
        LET files == lastOp.outcome.files
        IN  /\ lastOp.result.ok <=> Storable(files) # {}
            /\ lastOp.result.ok =>
                  MappingOf(lastOp.result.project.files, files, Storable(files))

\* of three entries, one was dropped and the other two had the same path and
\* different contents: the mapping has that path with the later content
C34_Witness ==
    /\ lastOp.op = "generateProject"
    /\ lastOp.result.ok
    /\ LET files == lastOp.outcome.files
       IN  /\ Len(files) = 3
           /\ ~HasPathAndContent(files[2])
           /\ HasPathAndContent(files[1]) /\ HasPathAndContent(files[3])
           /\ files[1].path = files[3].path
           /\ files[1].content # files[3].content
           /\ lastOp.result.project.files
                 = << [path |-> files[3].path, content |-> files[3].content] >>

\* the paths of the files mapping, and the paths of their folders: what a
\* path has before one of its slashes
FilePaths(files) == { files[k].path : k \in 1..Len(files) }

FolderPaths(files) ==
    UNION { { SubSeq(p, 1, k - 1) : k \in { i \in 1..Len(p) : p[i] = "/" } } :
              p \in FilePaths(files) }

\* the nodes the files mapping has: a file for each path, a folder for each
\* folder path
NodesOf(files) ==
    { [path |-> p, type |-> "file"] : p \in FilePaths(files) }
      \cup { [path |-> p, type |-> "folder"] : p \in FolderPaths(files) }

\* the folders `path` is in, at any depth
AncestorsOf(files, path) ==
    { f \in FolderPaths(files) :
         /\ Len(path) > Len(f)
         /\ SubSeq(path, 1, Len(f) + 1) = f \o <<"/">> }

\* the nodes the tree lists
ListedNodes ==
    LET listed == fileTree(activeProject.files, openFolders)
    IN  { [path |-> listed[k].path, type |-> listed[k].type] : k \in 1..Len(listed) }

\* C35: the file tree lists a node of the files mapping, file or folder,
\* exactly when all the folders it is in are in the open set, and lists
\* nothing else; no folder is open at the start; a click on a folder adds it
\* to the open set or removes it and leaves the other folders as they were;
\* and with all folders open every path of the mapping is listed as one
\* file node.
C35_TreeListsOpenedNodes ==
    LET files == activeProject.files
        listed == fileTree(files, openFolders)
    IN  /\ ListedNodes \subseteq NodesOf(files)
        /\ \A node \in NodesOf(files) :
              node \in ListedNodes <=> AncestorsOf(files, node.path) \subseteq openFolders
        /\ lastOp.op = "loadProject" => openFolders = {}
        /\ (lastOp.op = "onNodeClick" /\ lastOp.node.type = "folder") =>
              /\ openFolders \ { lastOp.node.path } = lastOp.open \ { lastOp.node.path }
              /\ lastOp.node.path \in openFolders <=> lastOp.node.path \notin lastOp.open
        /\ FolderPaths(files) \subseteq openFolders =>
              \A p \in FilePaths(files) :
                 Cardinality({ k \in 1..Len(listed) :
                                 listed[k].path = p /\ listed[k].type = "file" }) = 1

\* no path of the mapping has an empty name in it or is the folder of
\* another path
PlainPaths(files) ==
    /\ \A p \in FilePaths(files) : \A k \in 1..Len(Split(p)) : Split(p)[k] # <<>>
    /\ FilePaths(files) \cap FolderPaths(files) = {}

\* the tree of a mapping of such paths lists its nodes as C35 says
C35_ForPlainPaths == PlainPaths(activeProject.files) => C35_TreeListsOpenedNodes

====
